---- MODULE Spec2Model ----
(***************************************************************************)
(* Model of the synchronization and storage engine of arjungandhi/messages *)
(* (internal/messages: db.go, messages.go).  The SQLite store is modelled  *)
(* as two tables, each a sequence of rows in rowid order; the write        *)
(* operations are modelled statement by statement inside their             *)
(* transaction; the MessageManager operations call them in the order the   *)
(* code does.                                                              *)
(***************************************************************************)
EXTENDS Integers, Sequences, FiniteSets, TLC

VARIABLES conversations, messages, account, last, tx, db, config, pool

vars == <<conversations, messages, account, last, tx, db, config, pool>>

(***************************************************************************)
(* Bounds of the model.                                                    *)
(***************************************************************************)
\* Longest list handed to SaveConversations / SaveMessages.
MaxBatch == 2
\* Longest list of conversations, and of messages, a provider's Sync returns.
MaxSync == 1
\* Sub-second resolution of a time.Time value: instants are counted in ticks.
TicksPerSec == 2

ConvIds == {"c1", "c2"}
MsgIds == {"m1", "m2"}

(***************************************************************************)
(* Go values.  A slice is nil or a (possibly empty) list.                  *)
(***************************************************************************)
NilSlice == [isNil |-> TRUE, elems |-> <<>>]
Slice(s) == [isNil |-> FALSE, elems |-> s]

ErrNil == "nil"
\* Any error the database reports (wrapped with context by db.go).
ErrStore == "store error"

\* Mutant of Unix: the fraction of a second rounds up.
Unix_RoundsUp(t) == (t + TicksPerSec - 1) \div TicksPerSec

\* time.Time.Unix(): whole seconds since the epoch, fraction dropped.
Unix(t) == t \div TicksPerSec
\* time.Unix(sec, 0)
TimeUnix(sec) == sec * TicksPerSec

Attachment1 ==
    [Type |-> "img", SrcURL |-> "http://x/1", FileName |-> "a.png",
     FileSize |-> 10, MimeType |-> "image/png", Duration |-> 0,
     Width |-> 4, Height |-> 3, IsGif |-> FALSE, IsSticker |-> TRUE,
     IsVoiceNote |-> FALSE]

\* The Conversation values the callers and providers of the model hand in:
\* every field differs between the two shapes; LastActivity is 0.5 s or 1.0 s.
ConvShapes == {1, 2}
Conversation(id, shape) ==
    CASE shape = 1 ->
           [ID |-> id, AccountID |-> "a1", Platform |-> "wa",
            Title |-> "Chat 1", Type |-> "single",
            ParticipantUIDs |-> Slice(<<"u1">>), ParticipantCount |-> 1,
            UnreadCount |-> 0, LastActivity |-> 1,
            IsArchived |-> FALSE, IsMuted |-> FALSE, IsPinned |-> FALSE]
      [] OTHER ->
           [ID |-> id, AccountID |-> "a2", Platform |-> "tg",
            Title |-> "Chat 2", Type |-> "group",
            ParticipantUIDs |-> NilSlice, ParticipantCount |-> 2,
            UnreadCount |-> 3, LastActivity |-> 2,
            IsArchived |-> TRUE, IsMuted |-> TRUE, IsPinned |-> TRUE]

Conversations == {Conversation(id, s) : id \in ConvIds, s \in ConvShapes}

\* The Message values handed in.  Shapes 1 and 2 are two contacts in
\* conversation c1, shapes 2 and 3 one contact in c1 and c2; shapes 1 and 3
\* differ in every field; Timestamp is 0.5 s, 1.0 s or 2.5 s.
MsgShapes == {1, 2, 3}
Message(id, shape) ==
    CASE shape = 1 ->
           [ID |-> id, ContactUID |-> "u1", Timestamp |-> 1,
            SenderUID |-> "u1", SenderName |-> "Alice",
            ConversationUID |-> "c1", ChatTitle |-> "Chat 1",
            Text |-> "hello", Platform |-> "wa", PlatformID |-> "p1",
            IsSent |-> FALSE, Attachments |-> NilSlice, SortKey |-> "1"]
      [] shape = 2 ->
           [ID |-> id, ContactUID |-> "u2", Timestamp |-> 2,
            SenderUID |-> "me", SenderName |-> "Me",
            ConversationUID |-> "c1", ChatTitle |-> "Chat 1",
            Text |-> "hi", Platform |-> "wa", PlatformID |-> "p2",
            IsSent |-> TRUE, Attachments |-> Slice(<<>>), SortKey |-> "2"]
      [] OTHER ->
           [ID |-> id, ContactUID |-> "u2", Timestamp |-> 5,
            SenderUID |-> "u2", SenderName |-> "Bob",
            ConversationUID |-> "c2", ChatTitle |-> "Chat 2",
            Text |-> "bye", Platform |-> "tg", PlatformID |-> "p3",
            IsSent |-> TRUE, Attachments |-> Slice(<<Attachment1>>),
            SortKey |-> "3"]

Messages == {Message(id, s) : id \in MsgIds, s \in MsgShapes}

\* All lists over S of length at most n.
SeqsUpTo(S, n) == UNION {[1..k -> S] : k \in 0..n}

(***************************************************************************)
(* Store faults: where, if anywhere, the database reports an error during  *)
(* one write transaction.                                                  *)
(***************************************************************************)
NoFault == [kind |-> "none", row |-> 0]
Faults(n) ==
    {NoFault, [kind |-> "begin", row |-> 0], [kind |-> "commit", row |-> 0]}
    \cup {[kind |-> "exec", row |-> k] : k \in 1..n}

(***************************************************************************)
(* encoding/json                                                           *)
(***************************************************************************)
\* A string that is not valid UTF-8 (the letter u and the byte 0xff), and
\* the same string with the byte replaced by U+FFFD.
InvalidUTF8 == "u\\xff"
ReplacedUTF8 == "u\\ufffd"

\* json.Marshal writes a string coerced to valid UTF-8: every invalid byte
\* becomes the replacement rune U+FFFD.
ToValidUTF8(s) == IF s = InvalidUTF8 THEN ReplacedUTF8 ELSE s

\* json.Marshal of one Attachment: an object keyed by the json tags.
MarshalAttachment(a) ==
    [type |-> ToValidUTF8(a.Type), src_url |-> ToValidUTF8(a.SrcURL),
     file_name |-> ToValidUTF8(a.FileName),
     file_size |-> a.FileSize, mime_type |-> ToValidUTF8(a.MimeType),
     duration |-> a.Duration, width |-> a.Width, height |-> a.Height,
     is_gif |-> a.IsGif, is_sticker |-> a.IsSticker,
     is_voice_note |-> a.IsVoiceNote]
UnmarshalAttachment(o) ==
    [Type |-> o.type, SrcURL |-> o.src_url, FileName |-> o.file_name,
     FileSize |-> o.file_size, MimeType |-> o.mime_type,
     Duration |-> o.duration, Width |-> o.width, Height |-> o.height,
     IsGif |-> o.is_gif, IsSticker |-> o.is_sticker,
     IsVoiceNote |-> o.is_voice_note]

\* json.Marshal of a []string: "null" for a nil slice, an array otherwise.
MarshalStrings(s) ==
    IF s.isNil THEN [kind |-> "null", elems |-> <<>>]
    ELSE [kind |-> "array",
          elems |-> [i \in 1..Len(s.elems) |-> ToValidUTF8(s.elems[i])]]
\* json.Unmarshal into a zero []string.
UnmarshalStrings(j) ==
    IF j.kind = "null" THEN NilSlice ELSE Slice(j.elems)

MarshalAttachments(s) ==
    IF s.isNil THEN [kind |-> "null", elems |-> <<>>]
    ELSE [kind |-> "array",
          elems |-> [i \in 1..Len(s.elems) |-> MarshalAttachment(s.elems[i])]]
UnmarshalAttachments(j) ==
    IF j.kind = "null" THEN NilSlice
    ELSE Slice([i \in 1..Len(j.elems) |-> UnmarshalAttachment(j.elems[i])])

(***************************************************************************)
(* db.go: the write side                                                   *)
(***************************************************************************)
\* Mutant of ForeignKeys: the pragma is not set, foreign keys are not enforced.
ForeignKeys_Off == FALSE

\* PRAGMA foreign_keys = ON, set by OpenDB on the connection it uses.
ForeignKeys == TRUE

\* The values SaveConversations binds to its INSERT for one conversation.
ConvRow(conv) ==
    [id |-> conv.ID, account_id |-> conv.AccountID, platform |-> conv.Platform,
     title |-> conv.Title, type |-> conv.Type,
     participant_uids |-> MarshalStrings(conv.ParticipantUIDs),
     participant_count |-> conv.ParticipantCount,
     unread_count |-> conv.UnreadCount,
     last_activity |-> Unix(conv.LastActivity),
     is_archived |-> conv.IsArchived, is_muted |-> conv.IsMuted,
     is_pinned |-> conv.IsPinned]

\* The values SaveMessages binds to its INSERT for one message.
MsgRow(msg) ==
    [id |-> msg.ID, contact_uid |-> msg.ContactUID,
     timestamp |-> Unix(msg.Timestamp),
     sender_uid |-> msg.SenderUID, sender_name |-> msg.SenderName,
     conversation_uid |-> msg.ConversationUID, chat_title |-> msg.ChatTitle,
     content |-> msg.Text, platform |-> msg.Platform,
     platform_id |-> msg.PlatformID, is_sent |-> msg.IsSent,
     attachments |-> MarshalAttachments(msg.Attachments),
     sort_key |-> msg.SortKey]

HasId(table, id) == \E i \in 1..Len(table) : table[i].id = id
WithoutId(table, id) == SelectSeq(table, LAMBDA r : r.id # id)

\* Mutant of InsertOrReplace: the existing row is kept (INSERT OR IGNORE).
InsertOrReplace_KeepsOld(table, row) ==
    IF HasId(table, row.id) THEN table ELSE Append(table, row)

\* Mutant of InsertOrReplace: the table is emptied before the row is inserted.
InsertOrReplace_DeletesOthers(table, row) == <<row>>

\* INSERT OR REPLACE INTO conversations: a row with the same primary key is
\* deleted, the new row is inserted.
InsertOrReplace(table, row) == Append(WithoutId(table, row.id), row)

\* Mutant of InsertOrIgnore: no primary key stops a second row with the id.
InsertOrIgnore_NoKey(convTable, table, row) ==
    IF ForeignKeys /\ ~HasId(convTable, row.conversation_uid)
    THEN [table |-> table, err |-> ErrStore]
    ELSE [table |-> Append(table, row), err |-> ErrNil]

\* Mutant of InsertOrIgnore: the stored row is replaced (INSERT OR REPLACE).
InsertOrIgnore_Replaces(convTable, table, row) ==
    IF ForeignKeys /\ ~HasId(convTable, row.conversation_uid)
    THEN [table |-> table, err |-> ErrStore]
    ELSE [table |-> Append(SelectSeq(table, LAMBDA r : r.id # row.id), row),
          err |-> ErrNil]

\* INSERT OR IGNORE INTO messages: a row whose primary key exists is skipped;
\* otherwise the foreign key on conversation_uid is checked and the row is
\* inserted.
InsertOrIgnore(convTable, table, row) ==
    IF HasId(table, row.id) THEN [table |-> table, err |-> ErrNil]
    ELSE IF ForeignKeys /\ ~HasId(convTable, row.conversation_uid)
         THEN [table |-> table, err |-> ErrStore]
         ELSE [table |-> Append(table, row), err |-> ErrNil]

\* The loop of SaveConversations from row i on, inside the transaction.
RECURSIVE ExecConversations(_, _, _, _)
ExecConversations(table, batch, i, fault) ==
    IF i > Len(batch) THEN [table |-> table, err |-> ErrNil]
    ELSE IF fault.kind = "exec" /\ fault.row = i
         THEN [table |-> table, err |-> ErrStore]
         ELSE ExecConversations(InsertOrReplace(table, ConvRow(batch[i])),
                                batch, i + 1, fault)

\* Mutant of EndTx: no rollback, the rows written before an error stay.
EndTx_NoRollback(table, r, fault) ==
    IF r.err # ErrNil THEN [table |-> r.table, err |-> r.err]
    ELSE IF fault.kind = "commit" THEN [table |-> r.table, err |-> ErrStore]
    ELSE [table |-> r.table, err |-> ErrNil]

\* The end of a write transaction that started on `table` and whose loop
\* gave r: an error in the loop or a failing tx.Commit() leaves the table as
\* it was (the deferred tx.Rollback()), otherwise the loop's rows are committed.
EndTx(table, r, fault) ==
    IF r.err # ErrNil THEN [table |-> table, err |-> r.err]
    ELSE IF fault.kind = "commit" THEN [table |-> table, err |-> ErrStore]
    ELSE [table |-> r.table, err |-> ErrNil]

\* DB.SaveConversations: the committed table and the error returned.
SaveConversations(table, batch, fault) ==
    IF fault.kind = "begin" THEN [table |-> table, err |-> ErrStore]
    ELSE EndTx(table, ExecConversations(table, batch, 1, fault), fault)

\* Mutant of OnDelete: the foreign key is declared ON DELETE CASCADE.
OnDelete_Cascade(msgTable, id) ==
    SelectSeq(msgTable, LAMBDA r : r.conversation_uid # id)

\* What the delete of conversation row id, done by INSERT OR REPLACE, does to
\* the messages table: the foreign key of createTables has no ON DELETE
\* clause (NO ACTION), so the rows that reference id stay as they are; the
\* key is checked when the statement ends, with the new row id in place.
OnDelete(msgTable, id) == msgTable

\* The messages table after the rows of a SaveConversations batch from row i
\* on have been written to table.
RECURSIVE ReferencingRows(_, _, _, _)
ReferencingRows(msgTable, table, batch, i) ==
    IF i > Len(batch) THEN msgTable
    ELSE ReferencingRows(
             IF HasId(table, batch[i].ID)
             THEN OnDelete(msgTable, batch[i].ID) ELSE msgTable,
             InsertOrReplace(table, ConvRow(batch[i])), batch, i + 1)

\* Mutant of ExecMessages: a failing row is skipped and the loop goes on.
RECURSIVE ExecMessages_SkipsFailedRow(_, _, _, _, _)
ExecMessages_SkipsFailedRow(convTable, r, batch, i, fault) ==
    IF i > Len(batch) THEN [table |-> r.table, err |-> ErrNil]
    ELSE IF fault.kind = "exec" /\ fault.row = i
         THEN ExecMessages_SkipsFailedRow(convTable, r, batch, i + 1, fault)
         ELSE ExecMessages_SkipsFailedRow(
                  convTable,
                  [table |-> InsertOrIgnore(convTable, r.table,
                                            MsgRow(batch[i])).table,
                   err |-> ErrNil],
                  batch, i + 1, fault)

\* The loop of SaveMessages from row i on, inside the transaction; r is the
\* outcome of the rows before i.
RECURSIVE ExecMessages(_, _, _, _, _)
ExecMessages(convTable, r, batch, i, fault) ==
    IF r.err # ErrNil \/ i > Len(batch) THEN r
    ELSE IF fault.kind = "exec" /\ fault.row = i
         THEN [table |-> r.table, err |-> ErrStore]
         ELSE ExecMessages(convTable,
                           InsertOrIgnore(convTable, r.table, MsgRow(batch[i])),
                           batch, i + 1, fault)

\* DB.SaveMessages: the committed table and the error returned.
SaveMessages(convTable, table, batch, fault) ==
    IF fault.kind = "begin" THEN [table |-> table, err |-> ErrStore]
    ELSE EndTx(table,
               ExecMessages(convTable, [table |-> table, err |-> ErrNil],
                            batch, 1, fault),
               fault)

(***************************************************************************)
(* db.go: the query side                                                   *)
(***************************************************************************)
\* Insert row r into a list that is non-increasing in column col, after the
\* rows whose value there is at least r's.
RECURSIVE InsertDesc(_, _, _)
InsertDesc(sorted, r, col) ==
    IF sorted = <<>> THEN <<r>>
    ELSE IF Head(sorted)[col] >= r[col]
         THEN <<Head(sorted)>> \o InsertDesc(Tail(sorted), r, col)
         ELSE <<r>> \o sorted

\* Mutant of OrderByDesc: the ORDER BY clause is missing.
OrderByDesc_Unordered(rows, col) == rows

\* ORDER BY <col> DESC over the selected rows.
RECURSIVE OrderByDesc(_, _)
OrderByDesc(rows, col) ==
    IF rows = <<>> THEN <<>>
    ELSE InsertDesc(OrderByDesc(Tail(rows), col), Head(rows), col)

\* One iteration of scanConversations (and the Scan of GetConversation).
ScanConversation(row) ==
    [ID |-> row.id, AccountID |-> row.account_id, Platform |-> row.platform,
     Title |-> row.title, Type |-> row.type,
     ParticipantUIDs |-> UnmarshalStrings(row.participant_uids),
     ParticipantCount |-> row.participant_count,
     UnreadCount |-> row.unread_count,
     LastActivity |-> TimeUnix(row.last_activity),
     IsArchived |-> row.is_archived, IsMuted |-> row.is_muted,
     IsPinned |-> row.is_pinned]

\* One iteration of scanMessages.
ScanMessage(row) ==
    [ID |-> row.id, ContactUID |-> row.contact_uid,
     Timestamp |-> TimeUnix(row.timestamp),
     SenderUID |-> row.sender_uid, SenderName |-> row.sender_name,
     ConversationUID |-> row.conversation_uid, ChatTitle |-> row.chat_title,
     Text |-> row.content, Platform |-> row.platform,
     PlatformID |-> row.platform_id, IsSent |-> row.is_sent,
     Attachments |-> UnmarshalAttachments(row.attachments),
     SortKey |-> row.sort_key]

\* Store faults of one query: the statement itself fails (db.Query, or the
\* error QueryRow hands to Scan), rows.Scan fails at row `row`, or the
\* iteration breaks off after `row` rows and rows.Err() reports it.  n is the
\* number of rows the query selects.
QueryFaults(n) ==
    {NoFault, [kind |-> "query", row |-> 0]}
    \cup {[kind |-> "scan", row |-> k] : k \in 1..n}
    \cup {[kind |-> "rows", row |-> k] : k \in 0..n}

\* The faults of a QueryRow(...).Scan that selects n rows: the query fails,
\* the first rows.Next() fails, or the Scan of the first row fails.
QueryRowFaults(n) ==
    {NoFault, [kind |-> "query", row |-> 0], [kind |-> "rows", row |-> 0]}
    \cup {[kind |-> "scan", row |-> k] : k \in 1..(IF n > 0 THEN 1 ELSE 0)}

\* scanConversations over the rows of a query: the list and the error returned.
scanConversations(rows, fault) ==
    IF fault.kind = "scan" /\ fault.row <= Len(rows)
    THEN [list |-> <<>>, err |-> ErrStore]
    ELSE IF fault.kind = "rows" /\ fault.row <= Len(rows)
    THEN [list |-> [i \in 1..fault.row |-> ScanConversation(rows[i])],
          err |-> ErrStore]
    ELSE [list |-> [i \in 1..Len(rows) |-> ScanConversation(rows[i])],
          err |-> ErrNil]

\* scanMessages over the rows of a query.
scanMessages(rows, fault) ==
    IF fault.kind = "scan" /\ fault.row <= Len(rows)
    THEN [list |-> <<>>, err |-> ErrStore]
    ELSE IF fault.kind = "rows" /\ fault.row <= Len(rows)
    THEN [list |-> [i \in 1..fault.row |-> ScanMessage(rows[i])],
          err |-> ErrStore]
    ELSE [list |-> [i \in 1..Len(rows) |-> ScanMessage(rows[i])],
          err |-> ErrNil]

\* sql.ErrNoRows, and the error of scanning a NULL into an int64.
ErrNoRows == "sql: no rows in result set"
ErrScanNull == "converting NULL to int64 is unsupported"

\* DB.GetConversation: found = FALSE is the nil *Conversation.  QueryRow(...)
\* .Scan gives ErrNoRows when no row is selected, which is the (nil, nil)
\* return; any other error is returned.
GetConversation(table, conversationUID, fault) ==
    LET rows == SelectSeq(table, LAMBDA r : r.id = conversationUID) IN
    IF fault.kind = "query" \/ (fault.kind = "rows" /\ fault.row = 0)
    THEN [found |-> FALSE, rows |-> 0, err |-> ErrStore]
    ELSE IF rows = <<>> THEN [found |-> FALSE, rows |-> 0, err |-> ErrNil]
    ELSE IF fault.kind = "scan" /\ fault.row = 1
         THEN [found |-> FALSE, rows |-> Len(rows), err |-> ErrStore]
         ELSE [found |-> TRUE, rows |-> Len(rows),
               conv |-> ScanConversation(rows[1]), err |-> ErrNil]

\* The characters of the identifiers of the model.
Chars(s) ==
    CASE s = "u1" -> <<"u", "1">>
      [] s = "u2" -> <<"u", "2">>
      [] s = "u3" -> <<"u", "3">>
      [] s = "u12" -> <<"u", "1", "2">>
      [] s = "t&j" -> <<"t", "&", "j">>
      [] s = InvalidUTF8 -> <<"u", "\\xff">>
      [] s = ReplacedUTF8 -> <<"u", "\\ufffd">>

\* encoding/json writes a string between quotes, escaping the quote, the
\* backslash and (for HTML safety) <, > and &.
EscapeChar(c) ==
    CASE c = "\"" -> <<"\\", "\"">>
      [] c = "\\" -> <<"\\", "\\">>
      [] c = "<" -> <<"\\", "u", "0", "0", "3", "c">>
      [] c = ">" -> <<"\\", "u", "0", "0", "3", "e">>
      [] c = "&" -> <<"\\", "u", "0", "0", "2", "6">>
      [] OTHER -> <<c>>

RECURSIVE EscapeChars(_)
EscapeChars(cs) ==
    IF cs = <<>> THEN <<>> ELSE EscapeChar(Head(cs)) \o EscapeChars(Tail(cs))

JSONString(s) == <<"\"">> \o EscapeChars(Chars(s)) \o <<"\"">>

RECURSIVE JSONElems(_)
JSONElems(elems) ==
    IF elems = <<>> THEN <<>>
    ELSE IF Len(elems) = 1 THEN JSONString(elems[1])
    ELSE JSONString(Head(elems)) \o <<",">> \o JSONElems(Tail(elems))

\* string(participantUIDs): the text stored in the participant_uids column.
JSONText(j) ==
    IF j.kind = "null" THEN <<"n", "u", "l", "l">>
    ELSE <<"[">> \o JSONElems(j.elems) \o <<"]">>

UpperCase ==
    <<"A", "B", "C", "D", "E", "F", "G", "H", "I", "J", "K", "L", "M",
      "N", "O", "P", "Q", "R", "S", "T", "U", "V", "W", "X", "Y", "Z">>
LowerCase ==
    <<"a", "b", "c", "d", "e", "f", "g", "h", "i", "j", "k", "l", "m",
      "n", "o", "p", "q", "r", "s", "t", "u", "v", "w", "x", "y", "z">>
\* SQLite's LIKE does not tell the case of ASCII letters apart.
Fold(c) ==
    IF \E i \in 1..Len(UpperCase) : UpperCase[i] = c
    THEN LowerCase[CHOOSE i \in 1..Len(UpperCase) : UpperCase[i] = c]
    ELSE c

\* text LIKE pattern: % stands for any run of characters, _ for any one.
RECURSIVE LikeMatch(_, _)
LikeMatch(pattern, text) ==
    IF pattern = <<>> THEN text = <<>>
    ELSE IF Head(pattern) = "%"
    THEN \/ LikeMatch(Tail(pattern), text)
         \/ text # <<>> /\ LikeMatch(pattern, Tail(text))
    ELSE IF text = <<>> THEN FALSE
    ELSE IF Head(pattern) = "_" THEN LikeMatch(Tail(pattern), Tail(text))
    ELSE /\ Fold(Head(pattern)) = Fold(Head(text))
         /\ LikeMatch(Tail(pattern), Tail(text))

\* DB.GetConversationsForContact: the rows whose participant_uids text is LIKE
\* "%" + contactUID + "%", in the order of the table.
GetConversationsForContact(table, contactUID, fault) ==
    IF fault.kind = "query" THEN [list |-> <<>>, err |-> ErrStore]
    ELSE scanConversations(
             SelectSeq(table,
                 LAMBDA r : LikeMatch(<<"%">> \o Chars(contactUID) \o <<"%">>,
                                      JSONText(r.participant_uids))),
             fault)

\* DB.ListAllConversations
ListAllConversations(table, fault) ==
    IF fault.kind = "query" THEN [list |-> <<>>, err |-> ErrStore]
    ELSE scanConversations(OrderByDesc(table, "last_activity"), fault)

\* DB.GetMessagesForConversation
GetMessagesForConversation(table, conversationUID, fault) ==
    IF fault.kind = "query" THEN [list |-> <<>>, err |-> ErrStore]
    ELSE scanMessages(OrderByDesc(
             SelectSeq(table, LAMBDA r : r.conversation_uid = conversationUID),
             "timestamp"), fault)

\* Mutant of GetMessagesForContact: the rows are selected by their sender.
GetMessagesForContact_BySender(table, contactUID, fault) ==
    IF fault.kind = "query" THEN [list |-> <<>>, err |-> ErrStore]
    ELSE scanMessages(OrderByDesc(
             SelectSeq(table, LAMBDA r : r.sender_uid = contactUID),
             "timestamp"), fault)

\* DB.GetMessagesForContact
GetMessagesForContact(table, contactUID, fault) ==
    IF fault.kind = "query" THEN [list |-> <<>>, err |-> ErrStore]
    ELSE scanMessages(OrderByDesc(
             SelectSeq(table, LAMBDA r : r.contact_uid = contactUID),
             "timestamp"), fault)

\* SELECT MAX(timestamp) over the selected rows, scanned into the int64
\* `timestamp` that starts as 0: with no row selected MAX is NULL and the Scan
\* fails leaving 0; a failing query leaves 0 as well.
ScanMaxTimestamp(rows, fault) ==
    IF fault.kind = "query" \/ (fault.kind = "rows" /\ fault.row = 0)
    THEN [timestamp |-> 0, err |-> ErrStore]
    ELSE IF rows = <<>> \/ (fault.kind = "scan" /\ fault.row = 1)
    THEN [timestamp |-> 0, err |-> ErrScanNull]
    ELSE [timestamp |->
              CHOOSE t \in {rows[i].timestamp : i \in 1..Len(rows)} :
                  \A i \in 1..Len(rows) : rows[i].timestamp <= t,
          err |-> ErrNil]

\* Mutant of GetLastContactDate: only sql.ErrNoRows is taken for "no rows".
GetLastContactDate_OnlyErrNoRows(table, contactUID, fault) ==
    LET q == ScanMaxTimestamp(
                 SelectSeq(table, LAMBDA r : r.contact_uid = contactUID), fault)
    IN  IF q.err = ErrNoRows THEN [found |-> FALSE, err |-> ErrNil]
        ELSE IF q.err # ErrNil THEN [found |-> FALSE, err |-> ErrStore]
        ELSE [found |-> TRUE, time |-> TimeUnix(q.timestamp), err |-> ErrNil]

\* DB.GetLastContactDate: found = FALSE is the nil *time.Time.
GetLastContactDate(table, contactUID, fault) ==
    LET q == ScanMaxTimestamp(
                 SelectSeq(table, LAMBDA r : r.contact_uid = contactUID), fault)
    IN  IF q.err = ErrNoRows \/ q.timestamp = 0
        THEN [found |-> FALSE, err |-> ErrNil]
        ELSE IF q.err # ErrNil THEN [found |-> FALSE, err |-> ErrStore]
        ELSE [found |-> TRUE, time |-> TimeUnix(q.timestamp), err |-> ErrNil]

(***************************************************************************)
(* messages.go: MessageManager                                             *)
(***************************************************************************)
ErrNoRead == "account does not have read permission"
ErrNoWrite == "account does not have write permission"
\* Errors a provider returns from Sync (FetchFailed) and Send (SendFailed).
ErrFetchRooms == "failed to get joined rooms"
ErrFetchChats == "failed to fetch chats"
ErrSendFailed == "provider send failed"

\* One entry of the record of calls a manager operation made: the callee and
\* the error it returned.
Call(fn, err) == [fn |-> fn, err |-> err]

\* What the provider of the model has to return: a conversation whose fields
\* change between two syncs and a second conversation; a message that comes
\* back with other fields and another conversation, and a second message.
ProviderConversations ==
    {Conversation("c1", 1), Conversation("c1", 2), Conversation("c2", 1)}
ProviderMessages == {Message("m1", 1), Message("m1", 3), Message("m2", 2)}

\* What one run of Sync meets: the provider's answer (perr, cs, ms) and the
\* store faults of the two write transactions (the second is not reached when
\* the first fails).  The MessageProvider interface lets a failing provider
\* hand back lists along with its error.
SyncEnvs ==
    UNION {
        {[perr |-> e, cs |-> cs, ms |-> ms, cfault |-> NoFault, mfault |-> NoFault]
            : e \in {ErrFetchRooms, ErrFetchChats},
              ms \in SeqsUpTo(ProviderMessages, 1 - Len(cs))}
        : cs \in SeqsUpTo(ProviderConversations, 1)}
    \cup
    UNION {UNION {
        {[perr |-> ErrNil, cs |-> cs, ms |-> ms, cfault |-> cf, mfault |-> NoFault]
            : cf \in Faults(Len(cs)) \ {NoFault}}
        \cup
        {[perr |-> ErrNil, cs |-> cs, ms |-> ms, cfault |-> NoFault, mfault |-> mf]
            : mf \in Faults(Len(ms))}
        : ms \in SeqsUpTo(ProviderMessages, MaxSync)}
        : cs \in SeqsUpTo(ProviderConversations, MaxSync)}

\* Sync from line 101 on: c is what SaveConversations returned without error,
\* m what SaveMessages returned.
SyncMessages(c, m) ==
    [conversations |-> c.table, messages |-> m.table, err |-> m.err,
     calls |-> <<Call("provider.Sync", ErrNil), Call("SaveConversations", ErrNil),
                 Call("SaveMessages", m.err)>>]

\* Mutant of SyncWrite: the error of SaveConversations is not checked.
SyncWrite_Unchecked(c, msgTable, env) ==
    SyncMessages(c, SaveMessages(c.table, msgTable, env.ms, env.mfault))

\* Mutant of SyncWrite: the messages are not saved.
SyncWrite_ConversationsOnly(c, msgTable, env) ==
    [conversations |-> c.table, messages |-> msgTable, err |-> c.err,
     calls |-> <<Call("provider.Sync", ErrNil),
                 Call("SaveConversations", c.err)>>]

\* Sync from line 98 on: c is what SaveConversations returned.
SyncWrite(c, msgTable, env) ==
    IF c.err # ErrNil
    THEN [conversations |-> c.table, messages |-> msgTable, err |-> c.err,
          calls |-> <<Call("provider.Sync", ErrNil),
                      Call("SaveConversations", c.err)>>]
    ELSE SyncMessages(c, SaveMessages(c.table, msgTable, env.ms, env.mfault))

\* Mutant of Sync: the read permission is not checked.
Sync_NoReadGate(acct, convTable, msgTable, env) ==
    IF env.perr # ErrNil
    THEN [conversations |-> convTable, messages |-> msgTable,
          err |-> env.perr, calls |-> <<Call("provider.Sync", env.perr)>>]
    ELSE SyncWrite(SaveConversations(convTable, env.cs, env.cfault),
                   msgTable, env)

\* Mutant of Sync: the provider's error is not checked, its lists are written.
Sync_IgnoresProviderError(acct, convTable, msgTable, env) ==
    IF ~acct.Read
    THEN [conversations |-> convTable, messages |-> msgTable,
          err |-> ErrNoRead, calls |-> <<>>]
    ELSE SyncWrite(SaveConversations(convTable, env.cs, env.cfault),
                   msgTable, env)

\* MessageManager.Sync: the tables afterwards, the error returned and the
\* calls made to the provider and the store, in order.
Sync(acct, convTable, msgTable, env) ==
    IF ~acct.Read
    THEN [conversations |-> convTable, messages |-> msgTable,
          err |-> ErrNoRead, calls |-> <<>>]
    ELSE IF env.perr # ErrNil
    THEN [conversations |-> convTable, messages |-> msgTable,
          err |-> env.perr, calls |-> <<Call("provider.Sync", env.perr)>>]
    ELSE SyncWrite(SaveConversations(convTable, env.cs, env.cfault),
                   msgTable, env)

\* Mutant of Send: the write permission is not checked.
Send_NoWriteGate(acct, perr) ==
    [err |-> perr, calls |-> <<Call("provider.Send", perr)>>]

\* MessageManager.Send: perr is what the provider's Send returns if called.
Send(acct, perr) ==
    IF ~acct.Write
    THEN [err |-> ErrNoWrite, calls |-> <<>>]
    ELSE [err |-> perr, calls |-> <<Call("provider.Send", perr)>>]

(***************************************************************************)
(* matrix.go, beeper.go: the providers' Sync                               *)
(***************************************************************************)
\* Most rooms (chats) the remote service of the model holds.
MaxRooms == 2

\* time.Time{}: the zero time, long before the epoch (second -62135596800,
\* here second -1000: every instant before the epoch behaves alike).
ZeroTime == (0 - 1000) * TicksPerSec

\* The events (messages) a page of a room's history holds.  Timestamp is the
\* instant the service reports, in ticks.
Events ==
    {[ID |-> "m1", IsMessage |-> TRUE, Sender |-> "u1", Timestamp |-> 1,
      Body |-> "hello", IsMedia |-> FALSE],
     [ID |-> "m2", IsMessage |-> TRUE, Sender |-> "u2", Timestamp |-> 2,
      Body |-> "a.png", IsMedia |-> TRUE]}

\* One fetch of a page of history: it fails, or it hands back events.
Pages ==
    {[err |-> TRUE, events |-> <<>>]}
    \cup {[err |-> FALSE, events |-> <<e>>] : e \in Events}

\* The histories of the model: up to two pages, a failing fetch being the
\* last one made.
Histories ==
    {<<>>} \cup {<<p>> : p \in Pages}
    \cup {<<p, q>> : p \in {p \in Pages : ~p.err}, q \in Pages}

\* A room as the service answers for it during one Sync: its name, the
\* answer to the members request (Matrix) and its history.
Rooms ==
    [id : ConvIds, name : {"Chat"}, membersErr : BOOLEAN,
     members : {<<"u1", "u2">>}, pages : Histories]

\* What the service answers during one Sync: listFails is whether listing the
\* rooms fails (for Beeper's paged list: after `listed` chats were handed out).
Remotes ==
    {r \in [listFails : BOOLEAN, listed : 0..MaxRooms,
            rooms : SeqsUpTo(Rooms, MaxRooms)] :
        /\ r.listed <= Len(r.rooms)
        /\ ~r.listFails => r.listed = Len(r.rooms)
        /\ \A i, j \in 1..Len(r.rooms) :
              r.rooms[i].id = r.rooms[j].id => i = j}

\* The Matrix user the provider is connected as (p.userID).
userID == "u2"

\* The Message MatrixProvider.Sync builds from an event of a room.
MatrixMessage(room, evt) ==
    [ID |-> evt.ID, ContactUID |-> evt.Sender, Timestamp |-> evt.Timestamp,
     SenderUID |-> evt.Sender, SenderName |-> evt.Sender,
     ConversationUID |-> room.id, ChatTitle |-> room.name,
     Text |-> evt.Body, Platform |-> "matrix", PlatformID |-> evt.ID,
     IsSent |-> evt.Sender = userID,
     Attachments |->
        IF evt.IsMedia
        THEN Slice(<<[Type |-> "m.image", SrcURL |-> "mxc://x/1",
                      FileName |-> evt.Body, FileSize |-> 0, MimeType |-> "",
                      Duration |-> 0, Width |-> 0, Height |-> 0,
                      IsGif |-> FALSE, IsSticker |-> FALSE,
                      IsVoiceNote |-> FALSE]>>)
        ELSE NilSlice,
     SortKey |-> ToString(evt.Timestamp)]

\* The Conversation MatrixProvider.Sync builds for a room.
MatrixConversation(room) ==
    [ID |-> room.id, AccountID |-> "", Platform |-> "matrix",
     Title |-> room.name,
     Type |-> IF Len(room.members) <= 2 THEN "single" ELSE "group",
     ParticipantUIDs |-> Slice(room.members),
     ParticipantCount |-> Len(room.members),
     UnreadCount |-> 0, LastActivity |-> ZeroTime,
     IsArchived |-> FALSE, IsMuted |-> FALSE, IsPinned |-> FALSE]

\* The events of a page that are messages, as Messages of the room.
RECURSIVE MatrixChunk(_, _)
MatrixChunk(room, events) ==
    IF events = <<>> THEN <<>>
    ELSE (IF Head(events).IsMessage
          THEN <<MatrixMessage(room, Head(events))>> ELSE <<>>)
         \o MatrixChunk(room, Tail(events))

\* The paging loop of MatrixProvider.Sync for one room, from page k on: a
\* failing fetch prints a warning and ends the loop, as does an empty chunk.
RECURSIVE MatrixRoomMessages(_, _)
MatrixRoomMessages(room, k) ==
    IF k > Len(room.pages) THEN <<>>
    ELSE IF room.pages[k].err THEN <<>>
    ELSE IF room.pages[k].events = <<>> THEN <<>>
    ELSE MatrixChunk(room, room.pages[k].events)
         \o MatrixRoomMessages(room, k + 1)

\* The loop of MatrixProvider.Sync over the joined rooms, from room i on: a
\* room whose members cannot be fetched is skipped with a warning.
RECURSIVE MatrixRooms(_, _)
MatrixRooms(rooms, i) ==
    IF i > Len(rooms) THEN [conversations |-> <<>>, messages |-> <<>>]
    ELSE LET rest == MatrixRooms(rooms, i + 1) IN
         IF rooms[i].membersErr THEN rest
         ELSE [conversations |->
                   <<MatrixConversation(rooms[i])>> \o rest.conversations,
               messages |->
                   MatrixRoomMessages(rooms[i], 1) \o rest.messages]

\* MatrixProvider.Sync
MatrixSync(remote) ==
    IF remote.listFails
    THEN [conversations |-> <<>>, messages |-> <<>>, err |-> ErrFetchRooms]
    ELSE [conversations |-> MatrixRooms(remote.rooms, 1).conversations,
          messages |-> MatrixRooms(remote.rooms, 1).messages,
          err |-> ErrNil]

ErrFetchMessages == "failed to fetch messages for chat"

\* The Conversation and the Message BeeperProvider.Sync builds.
BeeperConversation(chat) ==
    [ID |-> chat.id, AccountID |-> "a1", Platform |-> "wa",
     Title |-> chat.name, Type |-> "single",
     ParticipantUIDs |-> Slice(chat.members),
     ParticipantCount |-> Len(chat.members),
     UnreadCount |-> 0, LastActivity |-> 1,
     IsArchived |-> FALSE, IsMuted |-> FALSE, IsPinned |-> FALSE]

BeeperMessage(chat, msg) ==
    [ID |-> msg.ID, ContactUID |-> msg.Sender, Timestamp |-> msg.Timestamp,
     SenderUID |-> msg.Sender, SenderName |-> msg.Sender,
     ConversationUID |-> chat.id, ChatTitle |-> chat.name,
     Text |-> msg.Body, Platform |-> "wa", PlatformID |-> msg.ID,
     IsSent |-> FALSE, Attachments |-> Slice(<<>>),
     SortKey |-> ToString(msg.Timestamp)]

\* The messages iterator of BeeperProvider.Sync for one chat, from page k on:
\* the messages handed out and messagesIter.Err() at the end.
RECURSIVE BeeperChatMessages(_, _)
BeeperChatMessages(chat, k) ==
    IF k > Len(chat.pages) THEN [messages |-> <<>>, err |-> ErrNil]
    ELSE IF chat.pages[k].err THEN [messages |-> <<>>, err |-> ErrFetchMessages]
    ELSE LET rest == BeeperChatMessages(chat, k + 1) IN
         [messages |->
              [j \in 1..Len(chat.pages[k].events) |->
                  BeeperMessage(chat, chat.pages[k].events[j])]
              \o rest.messages,
          err |-> rest.err]

\* The loop of BeeperProvider.Sync over the chats iterator, from chat i on.
RECURSIVE BeeperChats(_, _)
BeeperChats(remote, i) ==
    IF i > remote.listed
    THEN [conversations |-> <<>>, messages |-> <<>>,
          err |-> IF remote.listFails THEN ErrFetchChats ELSE ErrNil]
    ELSE LET m == BeeperChatMessages(remote.rooms[i], 1) IN
         IF m.err # ErrNil
         THEN [conversations |-> <<>>, messages |-> <<>>, err |-> m.err]
         ELSE LET rest == BeeperChats(remote, i + 1) IN
              IF rest.err # ErrNil THEN rest
              ELSE [conversations |->
                        <<BeeperConversation(remote.rooms[i])>>
                        \o rest.conversations,
                    messages |-> m.messages \o rest.messages,
                    err |-> ErrNil]

\* BeeperProvider.Sync
BeeperSync(remote) == BeeperChats(remote, 1)

(***************************************************************************)
(* The state machine                                                       *)
(***************************************************************************)
\* No Sync is in flight.  Otherwise tx holds the position of the Sync in
\* flight: the lists cs and ms its provider returned, the tables as they were
\* when it started, and, while pc is "conversations" or "messages", the
\* number i of the next row and the table as the open transaction has
\* written it so far.
IdleTx ==
    [pc |-> "idle", cs |-> <<>>, ms |-> <<>>, i |-> 0, work |-> <<>>,
     before |-> [conversations |-> <<>>, messages |-> <<>>]]

\* NewConfig(): no default and no accounts.
NewConfig == [Default |-> "", Accounts |-> <<>>]

\* The connections of the pool of mm.db after OpenDB: the one its pragmas
\* ran on ("configured"), idle, and no other.
OpenedPool == [configured |-> "idle", idle |-> 0, busy |-> 0]

\* mm.db after a successful OpenDB: the handle is in use and its pool holds
\* the one connection the statements of OpenDB ran on.
OpenedDB == [handle |-> "open", conns |-> 1]

\* After OpenDB on a fresh file: both tables empty, no manager and no account.
InitDB ==
    /\ conversations = <<>>
    /\ messages = <<>>
    /\ account = [Read |-> FALSE, Write |-> FALSE]
    /\ last = [op |-> "OpenDB", err |-> ErrNil, calls |-> <<>>]
    /\ tx = IdleTx
    /\ db = OpenedDB
    /\ config = NewConfig
    /\ pool = OpenedPool

\* After NewMessageManager on a fresh directory: both tables empty.
Init ==
    /\ conversations = <<>>
    /\ messages = <<>>
    /\ account \in [Read : BOOLEAN, Write : BOOLEAN]
    /\ last = [op |-> "NewMessageManager", err |-> ErrNil, calls |-> <<>>]
    /\ tx = IdleTx
    /\ db = OpenedDB
    /\ config = NewConfig
    /\ pool = OpenedPool

\* A later run of the program: Close, then NewMessageManager on the same
\* directory with the account as the configuration has it by then.  OpenDB
\* creates the tables only if they do not exist, so the rows stay.
NewMessageManager ==
    \E acct \in [Read : BOOLEAN, Write : BOOLEAN] :
        /\ account' = acct
        /\ last' = [op |-> "NewMessageManager", err |-> ErrNil, calls |-> <<>>]
        /\ UNCHANGED <<conversations, messages, tx, db, config, pool>>

CallSaveConversations ==
    \E batch \in SeqsUpTo(Conversations, MaxBatch) :
      \E fault \in Faults(Len(batch)) :
        \E r \in {SaveConversations(conversations, batch, fault)} :
        /\ conversations' = r.table
        /\ messages' = IF r.err = ErrNil
                       THEN ReferencingRows(messages, conversations, batch, 1)
                       ELSE messages
        /\ last' = [op |-> "SaveConversations", err |-> r.err, calls |-> <<>>]
        /\ UNCHANGED <<account, tx, db, config, pool>>

CallSaveMessages ==
    \E batch \in SeqsUpTo(Messages, MaxBatch) :
      \E fault \in Faults(Len(batch)) :
        \E r \in {SaveMessages(conversations, messages, batch, fault)} :
        /\ messages' = r.table
        /\ last' = [op |-> "SaveMessages", err |-> r.err, calls |-> <<>>]
        /\ UNCHANGED <<conversations, account, tx, db, config, pool>>

CallSync ==
    \E env \in SyncEnvs :
        \E r \in {Sync(account, conversations, messages, env)} :
        /\ conversations' = r.conversations
        /\ messages' = r.messages
        /\ last' = [op |-> "Sync", err |-> r.err, calls |-> r.calls]
        /\ UNCHANGED <<account, tx, db, config, pool>>

CallSend ==
    \E perr \in {ErrNil, ErrSendFailed} :
        \E r \in {Send(account, perr)} :
        /\ last' = [op |-> "Send", err |-> r.err, calls |-> r.calls]
        /\ UNCHANGED <<conversations, messages, account, tx, db, config,
                       pool>>

(***************************************************************************)
(* A Sync statement by statement, with a reader at work beside it          *)
(***************************************************************************)
\* Longest list of conversations, and of messages, of a Sync that is run
\* statement by statement.
MaxTxRows == 2

\* What the provider of such a Sync returns.
TxConversations == {Conversation("c1", 1), Conversation("c2", 2)}
TxMessages == {Message("m1", 1), Message("m2", 3)}

\* Mutant of ReaderView: the reader sees the rows of the open transaction.
ReaderView_Dirty(t, convTable, msgTable) ==
    [conversations |-> IF t.pc = "conversations" THEN t.work ELSE convTable,
     messages |-> IF t.pc = "messages" THEN t.work ELSE msgTable]

\* The tables as a query sees them while transaction t is open: the query
\* runs on a connection of its own (d.db.Query takes one from the pool, the
\* transaction holds its connection until Commit or Rollback) and SQLite shows
\* a connection only what is committed.
ReaderView(t, convTable, msgTable) ==
    [conversations |-> convTable, messages |-> msgTable]

\* The Sync in flight has ended at stage pc; its transaction, if open, is
\* rolled back.
EndSync(pc, err, calls) ==
    /\ tx' = [tx EXCEPT !.pc = pc, !.i = 0, !.work = <<>>]
    /\ last' = [op |-> "Sync", err |-> err, calls |-> calls]

\* Sync up to the start of SaveConversations: the permission is there and the
\* provider has answered with (cs, ms, nil).  A failing tx.Begin() shows as
\* the failure of the first step of the transaction.
BeginSync ==
    /\ tx.pc \notin {"conversations", "messages"}
    /\ account.Read
    /\ \E cs \in SeqsUpTo(TxConversations, MaxTxRows) :
       \E ms \in SeqsUpTo(TxMessages, MaxTxRows) :
          tx' = [pc |-> "conversations", cs |-> cs, ms |-> ms, i |-> 1,
                 work |-> conversations,
                 before |-> [conversations |-> conversations,
                             messages |-> messages]]
    /\ UNCHANGED <<conversations, messages, account, last, db, config, pool>>

\* One stmt.Exec of SaveConversations: the row is written inside the
\* transaction, or the statement fails and the deferred Rollback runs.
ExecConversation ==
    /\ tx.pc = "conversations"
    /\ tx.i <= Len(tx.cs)
    /\ \E fails \in BOOLEAN :
          IF fails
          THEN EndSync("conversationsFailed", ErrStore,
                       <<Call("provider.Sync", ErrNil),
                         Call("SaveConversations", ErrStore)>>)
          ELSE /\ tx' = [tx EXCEPT
                           !.work = InsertOrReplace(tx.work,
                                                    ConvRow(tx.cs[tx.i])),
                           !.i = tx.i + 1]
               /\ last' = last
    /\ UNCHANGED <<conversations, messages, account, db, config, pool>>

\* tx.Commit() of SaveConversations, and on success the tx.Begin() of
\* SaveMessages.
CommitConversations ==
    /\ tx.pc = "conversations"
    /\ tx.i > Len(tx.cs)
    /\ \E fails \in BOOLEAN :
          IF fails
          THEN /\ EndSync("conversationsFailed", ErrStore,
                          <<Call("provider.Sync", ErrNil),
                            Call("SaveConversations", ErrStore)>>)
               /\ conversations' = conversations
          ELSE /\ conversations' = tx.work
               /\ tx' = [tx EXCEPT !.pc = "messages", !.i = 1,
                                   !.work = messages]
               /\ last' = last
    /\ UNCHANGED <<messages, account, db, config, pool>>

\* One stmt.Exec of SaveMessages.
ExecMessage ==
    /\ tx.pc = "messages"
    /\ tx.i <= Len(tx.ms)
    /\ \E fails \in BOOLEAN :
       \E r \in {InsertOrIgnore(conversations, tx.work, MsgRow(tx.ms[tx.i]))} :
          IF fails \/ r.err # ErrNil
          THEN EndSync("messagesFailed", ErrStore,
                       <<Call("provider.Sync", ErrNil),
                         Call("SaveConversations", ErrNil),
                         Call("SaveMessages", ErrStore)>>)
          ELSE /\ tx' = [tx EXCEPT !.work = r.table, !.i = tx.i + 1]
               /\ last' = last
    /\ UNCHANGED <<conversations, messages, account, db, config, pool>>

\* tx.Commit() of SaveMessages and the return of Sync.
CommitMessages ==
    /\ tx.pc = "messages"
    /\ tx.i > Len(tx.ms)
    /\ \E fails \in BOOLEAN :
          IF fails
          THEN /\ EndSync("messagesFailed", ErrStore,
                          <<Call("provider.Sync", ErrNil),
                            Call("SaveConversations", ErrNil),
                            Call("SaveMessages", ErrStore)>>)
               /\ messages' = messages
          ELSE /\ EndSync("done", ErrNil,
                          <<Call("provider.Sync", ErrNil),
                            Call("SaveConversations", ErrNil),
                            Call("SaveMessages", ErrNil)>>)
               /\ messages' = tx.work
    /\ UNCHANGED <<conversations, account, db, config, pool>>

\* A query (ListAllConversations, GetMessagesForConversation, ...) of a
\* reader while a Sync is in flight: `seen` is what its SELECT reads, `at`
\* where the Sync stood.
Query ==
    /\ tx.pc \in {"conversations", "messages"}
    /\ last' = [op |-> "Query", err |-> ErrNil, calls |-> <<>>,
                seen |-> ReaderView(tx, conversations, messages),
                at |-> [pc |-> tx.pc, i |-> tx.i]]
    /\ UNCHANGED <<conversations, messages, account, tx, db, config, pool>>

InitConcurrent ==
    /\ conversations = <<>>
    /\ messages = <<>>
    /\ account = [Read |-> TRUE, Write |-> FALSE]
    /\ last = [op |-> "NewMessageManager", err |-> ErrNil, calls |-> <<>>]
    /\ tx = IdleTx
    /\ db = OpenedDB
    /\ config = NewConfig
    /\ pool = OpenedPool

NextConcurrent ==
    \/ BeginSync
    \/ ExecConversation
    \/ CommitConversations
    \/ ExecMessage
    \/ CommitMessages
    \/ Query

\* One Sync at a time, statement by statement, and a reader.
SpecConcurrent == InitConcurrent /\ [][NextConcurrent]_vars

(***************************************************************************)
(* The life of the store connection: NewMessageManager, Sync, Close        *)
(***************************************************************************)
\* Most connections the process is let to hold open at once.
MaxConns == 2

\* Where, if anywhere, OpenDB fails: in sql.Open, in connecting for the first
\* statement, or in one of its three statements on the opened connection.
OpenFaults ==
    {"none", "sql.Open", "connect", "foreign_keys", "journal_mode", "schema"}

\* OpenDB: the error returned and the number of connections that it opened
\* and that are still open when it returns.  sql.Open opens none; the first
\* db.Exec opens one, which goes back to the pool of db after each statement,
\* failed or not; no return of OpenDB calls db.Close().
OpenDB(fault) ==
    CASE fault = "none" -> [err |-> ErrNil, conns |-> 1]
      [] fault \in {"sql.Open", "connect"} -> [err |-> ErrStore, conns |-> 0]
      [] OTHER -> [err |-> ErrStore, conns |-> 1]

\* NewMessageManager(provider, acct, dbDir) when no manager is in use.
CallNewMessageManager ==
    /\ db.handle # "open"
    /\ db.conns < MaxConns
    /\ \E acct \in [Read : BOOLEAN, Write : BOOLEAN] :
       \E fault \in OpenFaults :
       \E r \in {OpenDB(fault)} :
          /\ db' = [handle |-> IF r.err = ErrNil THEN "open" ELSE "none",
                    conns |-> db.conns + r.conns]
          /\ account' = IF r.err = ErrNil THEN acct ELSE account
          /\ last' = [op |-> "NewMessageManager", err |-> r.err,
                      calls |-> <<>>, fault |-> fault]
    /\ UNCHANGED <<conversations, messages, tx, config, pool>>

\* mm.Sync() on the manager in use.
ManagerSync ==
    /\ db.handle = "open"
    /\ \E env \in SyncEnvs :
       \E r \in {Sync(account, conversations, messages, env)} :
          /\ conversations' = r.conversations
          /\ messages' = r.messages
          /\ last' = [op |-> "Sync", err |-> r.err, calls |-> r.calls]
    /\ UNCHANGED <<account, tx, db, config, pool>>

\* mm.Close(): db.Close() closes the connections of the pool of mm.db.
ManagerClose ==
    /\ db.handle = "open"
    /\ db' = [handle |-> "closed", conns |-> db.conns - 1]
    /\ last' = [op |-> "Close", err |-> ErrNil, calls |-> <<>>]
    /\ UNCHANGED <<conversations, messages, account, tx, config, pool>>

\* A fresh directory, no manager yet.
InitLifecycle ==
    /\ conversations = <<>>
    /\ messages = <<>>
    /\ account = [Read |-> FALSE, Write |-> FALSE]
    /\ last = [op |-> "start", err |-> ErrNil, calls |-> <<>>]
    /\ tx = IdleTx
    /\ db = [handle |-> "none", conns |-> 0]
    /\ config = NewConfig
    /\ pool = OpenedPool

NextLifecycle == CallNewMessageManager \/ ManagerSync \/ ManagerClose

SpecLifecycle == InitLifecycle /\ [][NextLifecycle]_vars

(***************************************************************************)
(* The store written and queried                                           *)
(***************************************************************************)
\* conv with the participants uids.
WithParticipants(conv, uids) ==
    [conv EXCEPT !.ParticipantUIDs = Slice(uids),
                 !.ParticipantCount = Len(uids)]

\* The conversations saved before the queries: participants that are plain,
\* that hold a character encoding/json escapes, that are a prefix of one
\* another, that are not valid UTF-8, and no participants at all.
QueryConversations ==
    {WithParticipants(Conversation("c1", 1), <<"u1", "t&j">>),
     WithParticipants(Conversation("c2", 1), <<"u12">>),
     WithParticipants(Conversation("c1", 2), <<InvalidUTF8>>),
     Conversation("c2", 2)}
QueryMessages == {Message("m1", 1), Message("m1", 2), Message("m2", 3)}
QueryUIDs == {"u1", "u12", "t&j", InvalidUTF8}

PutConversations ==
    \E batch \in SeqsUpTo(QueryConversations, MaxBatch) :
    \E r \in {SaveConversations(conversations, batch, NoFault)} :
        /\ conversations' = r.table
        /\ messages' = IF r.err = ErrNil
                       THEN ReferencingRows(messages, conversations, batch, 1)
                       ELSE messages
        /\ last' = [op |-> "SaveConversations", err |-> r.err, calls |-> <<>>,
                    arg |-> batch]
        /\ UNCHANGED <<account, tx, db, config, pool>>

PutMessages ==
    \E batch \in SeqsUpTo(QueryMessages, MaxBatch) :
    \E r \in {SaveMessages(conversations, messages, batch, NoFault)} :
        /\ messages' = r.table
        /\ last' = [op |-> "SaveMessages", err |-> r.err, calls |-> <<>>,
                    arg |-> batch]
        /\ UNCHANGED <<conversations, account, tx, db, config, pool>>

\* What a query leaves in `last`: its argument and the (list, err) returned.
Returned(op, arg, r) ==
    [op |-> op, err |-> r.err, calls |-> <<>>, arg |-> arg, list |-> r.list]

CallGetConversation ==
    \E id \in ConvIds :
    \E r \in {GetConversation(conversations, id, NoFault)} :
        /\ last' = Returned("GetConversation", id,
                            [list |-> IF r.found THEN <<r.conv>> ELSE <<>>,
                             err |-> r.err])
        /\ UNCHANGED <<conversations, messages, account, tx, db, config,
                       pool>>

CallListAllConversations ==
    /\ last' = Returned("ListAllConversations", "",
                        ListAllConversations(conversations, NoFault))
    /\ UNCHANGED <<conversations, messages, account, tx, db, config, pool>>

CallGetConversationsForContact ==
    \E u \in QueryUIDs :
        /\ last' = Returned("GetConversationsForContact", u,
                       GetConversationsForContact(conversations, u, NoFault))
        /\ UNCHANGED <<conversations, messages, account, tx, db, config,
                       pool>>

CallGetMessagesForConversation ==
    \E id \in ConvIds :
        /\ last' = Returned("GetMessagesForConversation", id,
                       GetMessagesForConversation(messages, id, NoFault))
        /\ UNCHANGED <<conversations, messages, account, tx, db, config,
                       pool>>

NextQueries ==
    \/ PutConversations
    \/ PutMessages
    \/ CallGetConversation
    \/ CallListAllConversations
    \/ CallGetConversationsForContact
    \/ CallGetMessagesForConversation

\* The store written and then queried on the connection OpenDB configured.
SpecQueries == InitDB /\ [][NextQueries]_vars

(***************************************************************************)
(* config.go: Config.GetAccount                                            *)
(***************************************************************************)
ErrNoAccount == "no account specified and no default set"
ErrAccountNotFound == "account not found"

\* AccountConfig{}
ZeroAccountConfig == [Provider |-> "", Read |-> FALSE, Write |-> FALSE]

\* The account configurations and the configurations of the model: the
\* accounts are any of "main" and "bot" (and an account under the empty
\* name), the default is empty, one of them, or a name without account.
AccountConfigs ==
    {[Provider |-> "beeper", Read |-> TRUE, Write |-> TRUE],
     [Provider |-> "matrix", Read |-> FALSE, Write |-> TRUE]}
AccountNames == {"", "main", "bot"}
Configs ==
    [Default : {"", "main", "nope"},
     Accounts : UNION {[names -> AccountConfigs] : names \in SUBSET AccountNames}]

\* Mutant of GetAccount: the default is not looked at.
GetAccount_NoDefault(c, name) ==
    IF name = ""
    THEN [name |-> "", acct |-> ZeroAccountConfig, err |-> ErrNoAccount]
    ELSE IF name \notin DOMAIN c.Accounts
    THEN [name |-> "", acct |-> ZeroAccountConfig, err |-> ErrAccountNotFound]
    ELSE [name |-> name, acct |-> c.Accounts[name], err |-> ErrNil]

\* Config.GetAccount(name): the (name, account, error) returned.
GetAccount(c, name) ==
    LET n == IF name = "" THEN c.Default ELSE name IN
    IF n = ""
    THEN [name |-> "", acct |-> ZeroAccountConfig, err |-> ErrNoAccount]
    ELSE IF n \notin DOMAIN c.Accounts
    THEN [name |-> "", acct |-> ZeroAccountConfig, err |-> ErrAccountNotFound]
    ELSE [name |-> n, acct |-> c.Accounts[n], err |-> ErrNil]

CallGetAccount ==
    \E name \in {"", "main", "bot", "nope"} :
    \E r \in {GetAccount(config, name)} :
        /\ last' = [op |-> "GetAccount", err |-> r.err, calls |-> <<>>,
                    arg |-> name, name |-> r.name, acct |-> r.acct]
        /\ UNCHANGED <<conversations, messages, account, tx, db, config,
                       pool>>

\* A configuration as loaded or built, no store opened.
InitConfig ==
    /\ conversations = <<>>
    /\ messages = <<>>
    /\ account = [Read |-> FALSE, Write |-> FALSE]
    /\ last = [op |-> "start", err |-> ErrNil, calls |-> <<>>]
    /\ tx = IdleTx
    /\ db = [handle |-> "none", conns |-> 0]
    /\ config \in Configs
    /\ pool = OpenedPool

NextConfig == CallGetAccount

SpecConfig == InitConfig /\ [][NextConfig]_vars

(***************************************************************************)
(* The store written while queries are at work: the connections of the     *)
(* pool of *sql.DB                                                         *)
(***************************************************************************)
\* database/sql keeps at most this many idle connections (its default).
MaxIdleConns == 2

\* The open connections of pool p, and those of them that are idle.
OpenConns(p) ==
    (IF p.configured = "closed" THEN 0 ELSE 1) + p.idle + p.busy
IdleConns(p) == (IF p.configured = "idle" THEN 1 ELSE 0) + p.idle

\* What a db.Query or db.Begin may get: an idle connection of the pool, the
\* configured one or another; with none idle, a connection the pool opens
\* then, on which no pragma of OpenDB has run.
Acquire(p) ==
    {[conn |-> "configured", pool |-> [p EXCEPT !.configured = "busy"]] :
        x \in {0} \cap {IF p.configured = "idle" THEN 0 ELSE 1}}
    \cup
    {[conn |-> "other",
      pool |-> [p EXCEPT !.idle = p.idle - 1, !.busy = p.busy + 1]] :
        x \in {0} \cap {IF p.idle > 0 THEN 0 ELSE 1}}
    \cup
    {[conn |-> "other", pool |-> [p EXCEPT !.busy = p.busy + 1]] :
        x \in {0} \cap {IF IdleConns(p) = 0 /\ OpenConns(p) < MaxConns
                        THEN 0 ELSE 1}}

\* rows.Close(), tx.Commit() or tx.Rollback() hands the connection back: it
\* is kept idle, or closed when MaxIdleConns connections are idle already.
Release(p, conn) ==
    IF conn = "configured"
    THEN [p EXCEPT !.configured =
                      IF IdleConns(p) < MaxIdleConns THEN "idle" ELSE "closed"]
    ELSE [p EXCEPT !.busy = p.busy - 1,
                   !.idle = IF IdleConns(p) < MaxIdleConns
                            THEN p.idle + 1 ELSE p.idle]

\* The loop of SaveMessages on a connection without PRAGMA foreign_keys = ON
\* (SQLite's default is OFF): only the primary key is looked at.
RECURSIVE ExecMessagesUnchecked(_, _, _)
ExecMessagesUnchecked(table, batch, i) ==
    IF i > Len(batch) THEN table
    ELSE ExecMessagesUnchecked(
             IF HasId(table, batch[i].ID) THEN table
             ELSE Append(table, MsgRow(batch[i])),
             batch, i + 1)

\* DB.SaveMessages when tx.Begin() got connection conn.
SaveMessagesOn(conn, convTable, table, batch) ==
    IF conn = "configured" THEN SaveMessages(convTable, table, batch, NoFault)
    ELSE [table |-> ExecMessagesUnchecked(table, batch, 1), err |-> ErrNil]

\* A query starts: it holds its connection while its rows are scanned.
OpenRows ==
    \E a \in Acquire(pool) :
        /\ pool' = a.pool
        /\ db' = [db EXCEPT !.conns = OpenConns(a.pool)]
        /\ last' = [op |-> "Query", err |-> ErrNil, calls |-> <<>>,
                    conn |-> a.conn]
        /\ UNCHANGED <<conversations, messages, account, tx, config>>

\* A query ends: the deferred rows.Close().
CloseRows ==
    \E conn \in {"configured", "other"} :
        /\ IF conn = "configured" THEN pool.configured = "busy"
           ELSE pool.busy > 0
        /\ pool' = Release(pool, conn)
        /\ db' = [db EXCEPT !.conns = OpenConns(pool')]
        /\ last' = [op |-> "rows.Close", err |-> ErrNil, calls |-> <<>>,
                    conn |-> conn]
        /\ UNCHANGED <<conversations, messages, account, tx, config>>

PoolSaveConversations ==
    \E a \in Acquire(pool) :
    \E batch \in SeqsUpTo(TxConversations, MaxTxRows) :
    \E r \in {SaveConversations(conversations, batch, NoFault)} :
        /\ conversations' = r.table
        /\ pool' = Release(a.pool, a.conn)
        /\ db' = [db EXCEPT !.conns = OpenConns(pool')]
        /\ last' = [op |-> "SaveConversations", err |-> r.err, calls |-> <<>>,
                    conn |-> a.conn, arg |-> batch]
        /\ UNCHANGED <<messages, account, tx, config>>

PoolSaveMessages ==
    \E a \in Acquire(pool) :
    \E batch \in SeqsUpTo(TxMessages, MaxTxRows) :
    \E r \in {SaveMessagesOn(a.conn, conversations, messages, batch)} :
        /\ messages' = r.table
        /\ pool' = Release(a.pool, a.conn)
        /\ db' = [db EXCEPT !.conns = OpenConns(pool')]
        /\ last' = [op |-> "SaveMessages", err |-> r.err, calls |-> <<>>,
                    conn |-> a.conn, arg |-> batch, before |-> messages]
        /\ UNCHANGED <<conversations, account, tx, config>>

NextPool == OpenRows \/ CloseRows \/ PoolSaveConversations \/ PoolSaveMessages

\* One writer, and queries at work beside it.
SpecPool == InitDB /\ [][NextPool]_vars

\* The store used directly (OpenDB, then SaveConversations and SaveMessages).
Next == CallSaveConversations \/ CallSaveMessages

Spec == InitDB /\ [][Next]_vars

\* The store used through a MessageManager.
NextManager == NewMessageManager \/ CallSync \/ CallSend

SpecManager == Init /\ [][NextManager]_vars

(***************************************************************************)
(* Properties of the store                                                 *)
(***************************************************************************)
ConvBatches == SeqsUpTo(Conversations, MaxBatch)
MsgBatches == SeqsUpTo(Messages, MaxBatch)
Accounts == [Read : BOOLEAN, Write : BOOLEAN]
ContactUIDs == {"u1", "u2", "u3"}

\* The rows of a table with the given id.
RowsWithId(table, id) == SelectSeq(table, LAMBDA r : r.id = id)

\* Position i holds the last element of list with that ID.
IsLastWithID(list, i) == \A j \in (i + 1)..Len(list) : list[j].ID # list[i].ID

\* C1: SaveMessages is idempotent.  In every reachable store state and for
\* every message list M, saving M a second time leaves the messages table as
\* the first save left it, row for row and field for field, so that
\* GetMessagesForConversation answers the same for every conversation id.
C1_SaveMessagesIdempotent ==
    \A M \in MsgBatches :
        \E once \in {SaveMessages(conversations, messages, M, NoFault)} :
        \E twice \in {SaveMessages(conversations, once.table, M, NoFault)} :
            /\ twice.table = once.table
            /\ \A c \in ConvIds :
                 GetMessagesForConversation(twice.table, c, NoFault)
                   = GetMessagesForConversation(once.table, c, NoFault)

\* A SaveMessages has succeeded and stored two messages: saving them again
\* meets rows that are already there.
C1_Witness ==
    /\ last.op = "SaveMessages"
    /\ last.err = ErrNil
    /\ Len(messages) = 2

\* The runs of Sync in which the provider answers and the store does not fail.
FaultlessSyncEnvs ==
    {env \in SyncEnvs :
        env.perr = ErrNil /\ env.cfault = NoFault /\ env.mfault = NoFault}

\* C2: a message id is write-once.  Whatever list SaveMessages is given, and
\* whatever a Sync meets, every stored message row is afterwards still stored
\* with every field as it was; and a list made only of ids already stored
\* (whatever their other fields) is saved without error and changes nothing,
\* by SaveMessages and by a Sync of an account that may read.
C2_MessageWriteOnce ==
    /\ \A M \in MsgBatches :
         \A f \in Faults(Len(M)) :
           \E r \in {SaveMessages(conversations, messages, M, f)} :
             /\ \A i \in 1..Len(messages) :
                  RowsWithId(r.table, messages[i].id) = <<messages[i]>>
             /\ (f = NoFault /\ \A k \in 1..Len(M) : HasId(messages, M[k].ID))
                  => r = [table |-> messages, err |-> ErrNil]
    /\ \A env \in FaultlessSyncEnvs :
         \E r \in {Sync([Read |-> TRUE, Write |-> FALSE],
                        conversations, messages, env)} :
           /\ \A i \in 1..Len(messages) :
                RowsWithId(r.messages, messages[i].id) = <<messages[i]>>
           /\ (\A k \in 1..Len(env.ms) : HasId(messages, env.ms[k].ID))
                => r.err = ErrNil /\ r.messages = messages

\* A message is stored, and a message with the same id but other text,
\* timestamp, contact_uid, conversation_uid and attachments can be supplied.
C2_Witness ==
    /\ last.op = "SaveMessages"
    /\ last.err = ErrNil
    /\ \E i \in 1..Len(messages) :
         \E m \in Messages :
           /\ m.ID = messages[i].id
           /\ MsgRow(m).content # messages[i].content
           /\ MsgRow(m).timestamp # messages[i].timestamp
           /\ MsgRow(m).contact_uid # messages[i].contact_uid
           /\ MsgRow(m).conversation_uid # messages[i].conversation_uid
           /\ MsgRow(m).attachments # messages[i].attachments

\* What GetConversation returns for a conversation saved as c: c with its
\* LastActivity cut to the whole second.
AsStored(c) == [c EXCEPT !.LastActivity = TimeUnix(Unix(c.LastActivity))]

NonIncreasing(list, field) ==
    \A i \in 1..(Len(list) - 1) : list[i][field] >= list[i + 1][field]

\* C4: ordering.  In every reachable store state ListAllConversations returns
\* the conversations non-increasing in last_activity, and
\* GetMessagesForConversation and GetMessagesForContact return the messages
\* non-increasing in timestamp.
C4_QueriesNewestFirst ==
    /\ NonIncreasing(ListAllConversations(conversations, NoFault).list,
                     "LastActivity")
    /\ \A c \in ConvIds :
         NonIncreasing(GetMessagesForConversation(messages, c, NoFault).list,
                       "Timestamp")
    /\ \A u \in ContactUIDs :
         NonIncreasing(GetMessagesForContact(messages, u, NoFault).list,
                       "Timestamp")

\* Both tables hold their rows oldest first, the messages in one conversation
\* and, in another state, for one contact.
C4_Witness ==
    /\ Len(conversations) = 2
    /\ conversations[1].last_activity < conversations[2].last_activity
    /\ Len(messages) = 2
    /\ messages[1].timestamp < messages[2].timestamp
    /\ messages[1].conversation_uid = messages[2].conversation_uid

\* Row k of list M is the first with its id, the id is not stored, and its
\* conversation_uid names no stored conversation.
IsDangling(M, k) ==
    /\ ~HasId(messages, M[k].ID)
    /\ \A j \in 1..(k - 1) : M[j].ID # M[k].ID
    /\ ~HasId(conversations, M[k].ConversationUID)

\* C11: SaveMessages is all-or-nothing.  If the store fails at the begin, at
\* any row or at the commit, or a new row is refused for its foreign key, the
\* call returns an error; and whenever it returns an error the messages table
\* is as it was before the call, the rows before the failing one included.
C11_SaveMessagesAllOrNothing ==
    \A M \in MsgBatches :
      \A f \in Faults(Len(M)) :
        \E r \in {SaveMessages(conversations, messages, M, f)} :
          /\ f # NoFault => r.err # ErrNil
          /\ (\E k \in 1..Len(M) : IsDangling(M, k)) => r.err # ErrNil
          /\ r.err # ErrNil => r.table = messages

\* A SaveMessages has failed on a store that holds one conversation, and a
\* list exists whose first row would be inserted and whose second is refused.
C11_Witness ==
    /\ last.op = "SaveMessages"
    /\ last.err # ErrNil
    /\ Len(conversations) = 1
    /\ \E M \in MsgBatches :
         /\ Len(M) = 2
         /\ ~HasId(messages, M[1].ID)
         /\ HasId(conversations, M[1].ConversationUID)
         /\ IsDangling(M, 2)

\* The stored messages of a contact.
RowsOfContact(u) == SelectSeq(messages, LAMBDA r : r.contact_uid = u)

\* C13: a missing entity is an empty answer, not an error.  For every id that
\* is not in the conversations table GetConversation returns (nil, nil), and
\* for every contact without a message row GetLastContactDate returns
\* (nil, nil).
C13_MissingIsNoneNotError ==
    /\ \A id \in ConvIds :
         ~HasId(conversations, id) =>
            GetConversation(conversations, id, NoFault)
              = [found |-> FALSE, rows |-> 0, err |-> ErrNil]
    /\ \A u \in ContactUIDs :
         RowsOfContact(u) = <<>> =>
            GetLastContactDate(messages, u, NoFault)
              = [found |-> FALSE, err |-> ErrNil]

\* Both tables hold rows, one conversation id is missing and one of the
\* contacts that write messages has none stored.
C13_Witness ==
    /\ Len(conversations) = 1
    /\ messages # <<>>
    /\ \E u \in {"u1", "u2"} : RowsOfContact(u) = <<>>

\* The largest timestamp of a non-empty list of message rows.
MaxTimestamp(rows) ==
    CHOOSE t \in {rows[i].timestamp : i \in 1..Len(rows)} :
        \A i \in 1..Len(rows) : rows[i].timestamp <= t

\* C14: GetLastContactDate(c) returns the largest timestamp of the stored
\* messages of contact c whenever there is one, also when that is epoch
\* second 0, and returns none only when there is no such message.
C14_LastContactDateIsMax ==
    \A u \in ContactUIDs :
      \E g \in {GetLastContactDate(messages, u, NoFault)} :
        IF RowsOfContact(u) = <<>> THEN ~g.found /\ g.err = ErrNil
        ELSE /\ g.found
             /\ g.err = ErrNil
             /\ g.time = TimeUnix(MaxTimestamp(RowsOfContact(u)))

\* C15: GetMessagesForContact(c) returns exactly the stored messages whose
\* contact_uid is c: every such row once, as scanned, and nothing else,
\* whatever their conversation and sender.
C15_MessagesForContactExact ==
    \A u \in ContactUIDs :
      \E g \in {GetMessagesForContact(messages, u, NoFault)} :
        /\ g.err = ErrNil
        /\ Len(g.list) = Len(RowsOfContact(u))
        /\ \A k \in 1..Len(g.list) : g.list[k].ContactUID = u
        /\ \A i \in 1..Len(messages) :
             messages[i].contact_uid = u =>
                \E k \in 1..Len(g.list) : g.list[k] = ScanMessage(messages[i])

\* One contact has two messages stored, in two conversations and from two
\* senders, none of them the contact.
C15_Witness ==
    /\ Len(messages) = 2
    /\ messages[1].contact_uid = messages[2].contact_uid
    /\ messages[1].conversation_uid # messages[2].conversation_uid
    /\ messages[1].sender_uid # messages[2].sender_uid
    /\ \E i \in 1..2 : messages[i].sender_uid # messages[i].contact_uid

\* C19: no store failure is swallowed.  Whenever the store reports an error
\* during a write or a query, the operation returns a non-nil error.
C19_NoStoreFailureSwallowed ==
    /\ \A batch \in ConvBatches :
         \A f \in Faults(Len(batch)) \ {NoFault} :
            SaveConversations(conversations, batch, f).err # ErrNil
    /\ \A M \in MsgBatches :
         \A f \in Faults(Len(M)) \ {NoFault} :
            SaveMessages(conversations, messages, M, f).err # ErrNil
    /\ \A id \in ConvIds :
         \A f \in QueryRowFaults(Len(RowsWithId(conversations, id)))
                    \ {NoFault} :
            GetConversation(conversations, id, f).err # ErrNil
    /\ \A f \in QueryFaults(Len(conversations)) \ {NoFault} :
         ListAllConversations(conversations, f).err # ErrNil
    /\ \A u \in ContactUIDs :
         \A f \in QueryFaults(
                    Len(GetConversationsForContact(conversations, u,
                                                   NoFault).list)) \ {NoFault} :
            GetConversationsForContact(conversations, u, f).err # ErrNil
    /\ \A c \in ConvIds :
         \A f \in QueryFaults(
                    Len(GetMessagesForConversation(messages, c,
                                                   NoFault).list)) \ {NoFault} :
            GetMessagesForConversation(messages, c, f).err # ErrNil
    /\ \A u \in ContactUIDs :
         \A f \in QueryFaults(Len(RowsOfContact(u))) \ {NoFault} :
            GetMessagesForContact(messages, u, f).err # ErrNil
    /\ \A u \in ContactUIDs :
         \A f \in QueryRowFaults(1) \ {NoFault} :
            GetLastContactDate(messages, u, f).err # ErrNil

\* C17 as stated: the store accepts a message whose conversation_uid names no
\* stored conversation: SaveMessages with such a new message succeeds and
\* commits it.
C17_AcceptsDanglingMessage ==
    \A m \in Messages :
       (~HasId(messages, m.ID) /\ ~HasId(conversations, m.ConversationUID))
         => \E r \in {SaveMessages(conversations, messages, <<m>>, NoFault)} :
              r.err = ErrNil /\ HasId(r.table, m.ID)

\* C17 as amended: with foreign keys enforced as OpenDB sets them, the store
\* refuses a new message whose conversation_uid names no stored conversation:
\* a SaveMessages whose list holds one returns an error and commits nothing of
\* the list; a list without one is saved without error, every id of it stored
\* afterwards.  The conversation row has to be committed before the message.
C17_RejectsDanglingMessage ==
    \A M \in MsgBatches :
      \E r \in {SaveMessages(conversations, messages, M, NoFault)} :
        IF \E k \in 1..Len(M) : IsDangling(M, k)
        THEN r.err # ErrNil /\ r.table = messages
        ELSE r.err = ErrNil /\ \A k \in 1..Len(M) : HasId(r.table, M[k].ID)

\* A message is stored, a conversation is missing, and a SaveMessages has
\* been refused.
C17_Witness ==
    /\ last.op = "SaveMessages"
    /\ last.err # ErrNil
    /\ messages # <<>>
    /\ \E m \in Messages : IsDangling(<<m>>, 1)

\* The account of a manager that may sync.
Reader == [Read |-> TRUE, Write |-> FALSE]

\* Every row of the conversations table is still in table `after`, and as it
\* was unless list `cs` holds a conversation with its id.
ConversationsKept(after, cs) ==
    \A j \in 1..Len(conversations) :
       /\ HasId(after, conversations[j].id)
       /\ (\A i \in 1..Len(cs) : cs[i].ID # conversations[j].id)
            => RowsWithId(after, conversations[j].id) = <<conversations[j]>>

\* C20: conversations are never deleted.  Whatever list SaveConversations is
\* given and whatever a Sync meets (a failing provider, a failing store),
\* every stored conversation id is stored afterwards, and a conversation
\* that is not in the list stays with every field unchanged.  SaveMessages,
\* Send and the queries do not write the conversations table.
C20_ConversationsNeverDeleted ==
    /\ \A batch \in ConvBatches :
         \A f \in Faults(Len(batch)) :
            ConversationsKept(SaveConversations(conversations, batch, f).table,
                              batch)
    /\ \A env \in SyncEnvs :
         env.mfault = NoFault =>
            ConversationsKept(
                Sync(Reader, conversations, messages, env).conversations,
                env.cs)

\* A SaveConversations has succeeded and two conversations are stored: a list
\* with one of them leaves the other out.
C20_Witness ==
    /\ last.op = "SaveConversations"
    /\ last.err = ErrNil
    /\ Len(conversations) = 2

(***************************************************************************)
(* Properties of the MessageManager                                        *)
(***************************************************************************)
\* C5: permission gating of sync.  With read = false, whatever the provider
\* and the store would do, Sync returns the permission error, calls neither the
\* provider's Sync nor the store, and leaves both tables as they were.
C5_SyncNeedsRead ==
    ~account.Read =>
        \A env \in SyncEnvs :
            Sync(account, conversations, messages, env)
              = [conversations |-> conversations, messages |-> messages,
                 err |-> ErrNoRead, calls |-> <<>>]

\* A Sync has been refused on a store that holds conversations and messages.
C5_Witness ==
    /\ last.op = "Sync"
    /\ last.err = ErrNoRead
    /\ ~account.Read
    /\ conversations # <<>>
    /\ messages # <<>>

\* C6: permission gating of send.  A Send with write = false returns the
\* permission error without calling the provider's Send; and every Send,
\* refused, failed or successful, leaves both tables as they were.
C6_SendNeedsWriteAndStoresNothing ==
    [][last'.op = "Send" =>
         /\ conversations' = conversations
         /\ messages' = messages
         /\ ~account.Write => (last'.err = ErrNoWrite /\ last'.calls = <<>>)]_vars

\* A Send has been refused on a store that holds messages.
C6_Witness ==
    /\ last.op = "Send"
    /\ last.err = ErrNoWrite
    /\ ~account.Write
    /\ messages # <<>>

\* C7: when the provider's Sync returns an error, Sync returns that same
\* error, calls neither SaveConversations nor SaveMessages, and leaves both
\* tables as they were, also when the provider handed back lists.
C7_ProviderErrorWritesNothing ==
    account.Read =>
        \A env \in SyncEnvs :
            env.perr # ErrNil =>
                Sync(account, conversations, messages, env)
                  = [conversations |-> conversations, messages |-> messages,
                     err |-> env.perr,
                     calls |-> <<Call("provider.Sync", env.perr)>>]

\* A Sync has returned a provider's error on a store that holds rows.
C7_Witness ==
    /\ last.op = "Sync"
    /\ last.err \in {ErrFetchRooms, ErrFetchChats}
    /\ last.calls = <<Call("provider.Sync", last.err)>>
    /\ conversations # <<>>
    /\ messages # <<>>

\* Message k of the provider's list refers to a conversation of the
\* provider's list or to one stored before the Sync.
RefersToKnown(env, k) ==
    \/ HasId(conversations, env.ms[k].ConversationUID)
    \/ \E j \in 1..Len(env.cs) : env.cs[j].ID = env.ms[k].ConversationUID

\* C8: within one Sync the conversations are written and committed before the
\* messages are started: SaveMessages is called only after SaveConversations
\* has returned without error, and it then sees the committed conversations
\* (messages of the conversations that came with them are accepted).  If
\* writing the conversations fails, Sync returns that error, SaveMessages is
\* not called and the messages table is as it was.
C8_ConversationsBeforeMessages ==
    account.Read =>
        \A env \in SyncEnvs :
            env.perr = ErrNil =>
              \E r \in {Sync(account, conversations, messages, env)} :
                /\ Len(r.calls) \in {2, 3}
                /\ r.calls[1] = Call("provider.Sync", ErrNil)
                /\ r.calls[2].fn = "SaveConversations"
                /\ Len(r.calls) = 3 =>
                     /\ r.calls[2].err = ErrNil
                     /\ r.calls[3].fn = "SaveMessages"
                /\ env.cfault # NoFault =>
                     /\ r.err # ErrNil
                     /\ r.calls = <<Call("provider.Sync", ErrNil),
                                    Call("SaveConversations", r.err)>>
                     /\ r.messages = messages
                /\ (/\ env.cfault = NoFault /\ env.mfault = NoFault
                    /\ \A k \in 1..Len(env.ms) : RefersToKnown(env, k))
                     => /\ r.err = ErrNil
                        /\ \A k \in 1..Len(env.ms) : HasId(r.messages, env.ms[k].ID)

\* A Sync has failed in SaveConversations on a store that holds messages.
C8_Witness ==
    /\ last.op = "Sync"
    /\ Len(last.calls) = 2
    /\ last.calls[2] = Call("SaveConversations", ErrStore)
    /\ last.err = ErrStore
    /\ messages # <<>>

\* C9: if within one Sync the conversations commit and the messages then fail,
\* Sync returns the error, the conversations table holds the newly synced
\* conversations (each as saved, one row per id, the other rows untouched) and
\* the messages table is exactly as it was before the Sync.
C9_NoRollbackAcrossTheTwoWrites ==
    account.Read =>
        \A env \in SyncEnvs :
            (env.perr = ErrNil /\ env.cfault = NoFault) =>
              \E r \in {Sync(account, conversations, messages, env)} :
                /\ env.mfault # NoFault => r.err # ErrNil
                /\ r.calls[3].err = r.err
                /\ r.err # ErrNil =>
                     /\ r.messages = messages
                     /\ \A i \in 1..Len(env.cs) :
                          IsLastWithID(env.cs, i) =>
                            RowsWithId(r.conversations, env.cs[i].ID)
                              = <<ConvRow(env.cs[i])>>
                     /\ \A j \in 1..Len(conversations) :
                          (\A i \in 1..Len(env.cs) :
                              env.cs[i].ID # conversations[j].id)
                            => RowsWithId(r.conversations, conversations[j].id)
                                 = <<conversations[j]>>

\* A Sync has failed in SaveMessages after its conversations were committed.
C9_Witness ==
    /\ last.op = "Sync"
    /\ last.calls = <<Call("provider.Sync", ErrNil),
                      Call("SaveConversations", ErrNil),
                      Call("SaveMessages", ErrStore)>>
    /\ last.err = ErrStore
    /\ conversations # <<>>
    /\ messages = <<>>

\* C10: SaveConversations is all-or-nothing.  If the store fails at the begin,
\* at any row or at the commit, the call returns an error; and whenever it
\* returns an error the conversations table is as it was before the call, the
\* rows of the list before the failing one included.
C10_SaveConversationsAllOrNothing ==
    \A batch \in ConvBatches :
      \A f \in Faults(Len(batch)) :
        \E r \in {SaveConversations(conversations, batch, f)} :
          /\ f # NoFault => r.err # ErrNil
          /\ r.err # ErrNil => r.table = conversations

\* A SaveConversations has failed on a store that holds a conversation, and a
\* list exists whose first row would change the table and whose second fails.
C10_Witness ==
    /\ last.op = "SaveConversations"
    /\ last.err # ErrNil
    /\ Len(conversations) = 1
    /\ \E batch \in ConvBatches :
         /\ Len(batch) = 2
         /\ InsertOrReplace(conversations, ConvRow(batch[1])) # conversations

\* What the queries return for a message saved as m.
AsStoredMessage(m) == [m EXCEPT !.Timestamp = TimeUnix(Unix(m.Timestamp))]

IsFirstWithID(list, k) == \A j \in 1..(k - 1) : list[j].ID # list[k].ID

Range(list) == {list[i] : i \in 1..Len(list)}

AllRoomIds(remote) == {remote.rooms[i].id : i \in 1..Len(remote.rooms)}
AllMessageIds(remote) ==
    UNION {UNION {{<<remote.rooms[i].id, remote.rooms[i].pages[k].events[j].ID>>
                     : j \in 1..Len(remote.rooms[i].pages[k].events)}
                     : k \in 1..Len(remote.rooms[i].pages)}
                     : i \in 1..Len(remote.rooms)}

\* The provider's result is complete: every room and every message is in it.
IsComplete(remote, r) ==
    /\ {r.conversations[i].ID : i \in 1..Len(r.conversations)}
         = AllRoomIds(remote)
    /\ {<<r.messages[i].ConversationUID, r.messages[i].ID>> :
           i \in 1..Len(r.messages)} = AllMessageIds(remote)

\* A page of the history of one of the first n rooms fails.
PageFails(remote, n) ==
    \E i \in 1..n :
       \E k \in 1..Len(remote.rooms[i].pages) : remote.rooms[i].pages[k].err

\* Some request of a MatrixProvider.Sync fails: the joined rooms, the members
\* of a room or a page of a room's history.
MatrixFetchFails(remote) ==
    \/ remote.listFails
    \/ \E i \in 1..Len(remote.rooms) : remote.rooms[i].membersErr
    \/ PageFails(remote, Len(remote.rooms))

\* Some request of a BeeperProvider.Sync fails: the list of chats (which
\* come with their participants) or a page of the history of a listed chat.
BeeperFetchFails(remote) ==
    remote.listFails \/ PageFails(remote, remote.listed)

\* What MessageManager.Sync meets when its provider returns r and the store
\* does not fail.
SyncEnvOf(r) ==
    [perr |-> r.err, cs |-> r.conversations, ms |-> r.messages,
     cfault |-> NoFault, mfault |-> NoFault]

\* C18: every provider's Sync returns the complete collections or an error:
\* it returns an error when fetching the members or the messages of some
\* conversation fails, so that the Sync of a manager with that provider fails
\* as well, and what it returns without error is every conversation and every
\* message of the service.
C18_ProviderSyncCompleteOrError ==
    \A remote \in Remotes :
       /\ \E r \in {MatrixSync(remote)} :
            /\ MatrixFetchFails(remote) =>
                 /\ r.err # ErrNil
                 /\ Sync(Reader, conversations, messages, SyncEnvOf(r)).err
                      # ErrNil
            /\ r.err = ErrNil => IsComplete(remote, r)
       /\ \E r \in {BeeperSync(remote)} :
            /\ BeeperFetchFails(remote) =>
                 /\ r.err # ErrNil
                 /\ Sync(Reader, conversations, messages, SyncEnvOf(r)).err
                      # ErrNil
            /\ r.err = ErrNil => IsComplete(remote, r)

(***************************************************************************)
(* Properties of a Sync with a reader beside it                            *)
(***************************************************************************)
\* The tables after the whole conversation batch, and after the whole message
\* batch, of the Sync tx is about (the message batch as a whole leaves the
\* table as it was when a row of it is refused).
BatchesOf(t) ==
    LET c == SaveConversations(t.before.conversations, t.cs, NoFault).table
    IN  [conversations |-> c,
         messages |-> SaveMessages(c, t.before.messages, t.ms, NoFault).table]

\* What a reader may see while the Sync of tx is at stage pc: before the
\* conversations commit, the tables as they were; from then until the
\* messages commit, all of the conversation batch and none of the message
\* batch; then all of both.
AllowedView(t, pc) ==
    CASE pc \in {"conversations", "conversationsFailed"} -> t.before
      [] pc \in {"messages", "messagesFailed"} ->
            [conversations |-> BatchesOf(t).conversations,
             messages |-> t.before.messages]
      [] pc = "done" -> BatchesOf(t)

\* C12: a query beside a Sync never sees a half-committed batch.  At every
\* moment of a Sync what a query reads is, table by table, none or all of the
\* rows of the batch: the tables as they were until the conversations commit,
\* then the whole conversation batch and nothing of the message batch, and
\* the whole message batch once it has committed (nothing of it if it fails);
\* and so is what the last query has read during the Sync in flight.
C12_NoHalfCommittedBatch ==
    /\ tx.pc # "idle" =>
          ReaderView(tx, conversations, messages) = AllowedView(tx, tx.pc)
    /\ (last.op = "Query" /\ tx.pc \in {"conversations", "messages"}) =>
          last.seen \in {AllowedView(tx, "conversations"),
                         AllowedView(tx, "messages")}

\* A query has run while the first of two rows of a message batch was
\* written and not committed, the conversation batch being committed.
C12_Witness ==
    /\ last.op = "Query"
    /\ last.at = [pc |-> "messages", i |-> 2]
    /\ tx.pc = "messages"
    /\ tx.i = 2
    /\ Len(tx.ms) = 2
    /\ tx.work # messages
    /\ conversations # tx.before.conversations

(***************************************************************************)
(* Properties of the life of the store connection                          *)
(***************************************************************************)
\* C21: the store connection is released on all exit paths.  When
\* NewMessageManager fails after the connection was opened (the foreign-key
\* pragma, the WAL pragma or the creation of the schema failing) no
\* connection is open when the error is returned, and after Close on a
\* manager that was created no connection is open.
C21_ConnectionReleasedOnAllPaths ==
    /\ (/\ last.op = "NewMessageManager"
        /\ last.err # ErrNil
        /\ last.fault \in {"foreign_keys", "journal_mode", "schema"})
          => db.conns = 0
    /\ last.op = "Close" => db.conns = 0

(***************************************************************************)
(* Properties of the queries                                               *)
(***************************************************************************)
\* u is one of the identifiers of the list.
IsMember(u, slice) == \E i \in 1..Len(slice.elems) : slice.elems[i] = u

\* C22: GetConversationsForContact(u) has no false negatives.  Whatever the
\* identifier u, every stored conversation whose participant list has u as
\* a member is in the list returned (conversations where u is only part of
\* an identifier may be there as well).
C22_NoFalseNegatives ==
    (last.op = "GetConversationsForContact" /\ last.err = ErrNil) =>
        \A i \in 1..Len(conversations) :
            IsMember(last.arg,
                     ScanConversation(conversations[i]).ParticipantUIDs)
            => \E k \in 1..Len(last.list) :
                  last.list[k].ID = conversations[i].id

\* C23: structured fields round-trip.  A conversation saved with N
\* participant identifiers and read back with GetConversation or
\* ListAllConversations has exactly these N identifiers, and a message saved
\* with attachments and read back has as many attachments, equal field by
\* field.
C23_StructuredFieldsRoundTrip ==
    /\ \A c \in QueryConversations :
          \E t \in {SaveConversations(conversations, <<c>>, NoFault).table} :
          \E g \in {GetConversation(t, c.ID, NoFault)} :
          \E l \in {ListAllConversations(t, NoFault).list} :
             /\ g.found
             /\ g.conv.ParticipantUIDs.elems = c.ParticipantUIDs.elems
             /\ \E k \in 1..Len(l) : l[k].ID = c.ID
             /\ \A k \in 1..Len(l) :
                   l[k].ID = c.ID =>
                      l[k].ParticipantUIDs.elems = c.ParticipantUIDs.elems
    /\ \A m \in QueryMessages :
          (HasId(conversations, m.ConversationUID) /\ ~HasId(messages, m.ID))
          => \E l \in {GetMessagesForConversation(
                          SaveMessages(conversations, messages, <<m>>,
                                       NoFault).table,
                          m.ConversationUID, NoFault).list} :
                \E k \in 1..Len(l) :
                   /\ l[k].ID = m.ID
                   /\ l[k].Attachments.elems = m.Attachments.elems

\* Instants before, at and after the epoch, with and without a fraction of a
\* second, and the zero time.Time.
Instants == {ZeroTime} \cup ((0 - 2 * TicksPerSec)..(3 * TicksPerSec))

\* The instant t without its fraction of a second: the last whole second
\* that is not after t.
WholeSecond(t) ==
    CHOOSE w \in (t - TicksPerSec + 1)..t : w % TicksPerSec = 0

\* C24: timestamps are persisted as whole epoch seconds.  A conversation's
\* last_activity and a message's timestamp saved with a fraction of a second
\* are read back as the same instant without the fraction, and saved as a
\* whole number of seconds they are read back as the same instant.
C24_TimesToTheSecond ==
    \A t \in Instants :
       /\ \A c \in QueryConversations :
             \E g \in {GetConversation(
                          SaveConversations(conversations,
                              <<[c EXCEPT !.LastActivity = t]>>,
                              NoFault).table,
                          c.ID, NoFault)} :
                /\ g.found
                /\ g.conv.LastActivity = WholeSecond(t)
                /\ t % TicksPerSec = 0 => g.conv.LastActivity = t
       /\ \A m \in QueryMessages :
             (HasId(conversations, m.ConversationUID) /\ ~HasId(messages, m.ID))
             => \E l \in {GetMessagesForConversation(
                             SaveMessages(conversations, messages,
                                 <<[m EXCEPT !.Timestamp = t]>>,
                                 NoFault).table,
                             m.ConversationUID, NoFault).list} :
                   \E k \in 1..Len(l) :
                      /\ l[k].ID = m.ID
                      /\ l[k].Timestamp = WholeSecond(t)
                      /\ t % TicksPerSec = 0 => l[k].Timestamp = t

\* A message saved with a timestamp of 2.5 s has been read back with 2 s.
C24_Witness ==
    /\ last.op = "GetMessagesForConversation"
    /\ \E k \in 1..Len(last.list) :
       \E m \in QueryMessages :
          /\ m.Timestamp % TicksPerSec # 0
          /\ \E i \in 1..Len(messages) : messages[i] = MsgRow(m)
          /\ last.list[k].ID = m.ID
          /\ last.list[k].Timestamp = WholeSecond(m.Timestamp)
          /\ last.list[k].Timestamp # m.Timestamp

(***************************************************************************)
(* Properties of the configuration                                         *)
(***************************************************************************)
\* C25: Config.GetAccount resolves the account.  With a name that is not
\* empty it returns that name and its account when the name is in Accounts;
\* with the empty name it does so for the name in Default; when the name to
\* look up is empty or is not in Accounts it returns an error, and with every
\* error the empty name and the zero AccountConfig.
C25_GetAccountResolution ==
    last.op = "GetAccount" =>
        LET wanted == IF last.arg # "" THEN last.arg ELSE config.Default IN
        IF wanted # "" /\ wanted \in DOMAIN config.Accounts
        THEN /\ last.err = ErrNil
             /\ last.name = wanted
             /\ last.acct = config.Accounts[wanted]
        ELSE /\ last.err # ErrNil
             /\ last.name = ""
             /\ last.acct = ZeroAccountConfig

\* GetAccount("") has returned the default account.
C25_Witness ==
    /\ last.op = "GetAccount"
    /\ last.arg = ""
    /\ last.err = ErrNil
    /\ last.name = config.Default
    /\ last.acct # ZeroAccountConfig

IsReferenced(id) ==
    \E i \in 1..Len(messages) : messages[i].conversation_uid = id

\* C27: re-saving a conversation that has stored messages is safe.  A
\* SaveConversations that replaces the row of a conversation referenced by
\* message rows succeeds, the row becomes the one saved last, and every
\* message row stays as it was; SaveConversations never changes the messages
\* table and SaveMessages never changes the conversations table.
C27_ResaveKeepsMessages ==
    [][/\ last'.op = "SaveConversations" =>
             /\ messages' = messages
             /\ \A k \in 1..Len(last'.arg) :
                   (IsReferenced(last'.arg[k].ID) /\ IsLastWithID(last'.arg, k))
                   => /\ last'.err = ErrNil
                      /\ RowsWithId(conversations', last'.arg[k].ID)
                            = <<ConvRow(last'.arg[k])>>
       /\ last'.op = "SaveMessages" => conversations' = conversations]_vars

\* A conversation with a stored message has been saved again, with other
\* fields than it had when the message was stored.
C27_Witness ==
    /\ last.op = "SaveConversations"
    /\ last.err = ErrNil
    /\ \E k \in 1..Len(last.arg) :
       \E i \in 1..Len(messages) :
          /\ messages[i].conversation_uid = last.arg[k].ID
          /\ messages[i].chat_title # last.arg[k].Title
          /\ RowsWithId(conversations, last.arg[k].ID) = <<ConvRow(last.arg[k])>>

(***************************************************************************)
(* Properties of the store with queries at work                            *)
(***************************************************************************)
\* C28: referential integrity.  In every state of the store every message
\* row's conversation_uid is the id of a conversation row, and a SaveMessages
\* batch with a new message whose conversation is not stored is rejected as
\* a whole with an error.
C28_ReferentialIntegrity ==
    /\ \A i \in 1..Len(messages) :
          HasId(conversations, messages[i].conversation_uid)
    /\ (/\ last.op = "SaveMessages"
        /\ \E k \in 1..Len(last.arg) :
              /\ ~HasId(last.before, last.arg[k].ID)
              /\ IsFirstWithID(last.arg, k)
              /\ ~HasId(conversations, last.arg[k].ConversationUID))
          => /\ last.err # ErrNil
             /\ messages = last.before

====
